---- MODULE Spec2Model ----
(***************************************************************************)
(* Model of sxs/utilities/sxs_directories.py: the memoized directory       *)
(* resolver sxs_directory(directory_type, persistent=True).                *)
(*                                                                         *)
(* The process state is the environment (os.environ), the filesystem, the  *)
(* lru_cache of sxs_directory, the warnings emitted so far, and the atexit *)
(* registry.  Each call of sxs_directory is one atomic action (the module  *)
(* is single threaded); the environment and the filesystem can also be     *)
(* changed from outside between calls.                                     *)
(*                                                                         *)
(* Paths are sequences of components: <<"/", "a">> is /a, <<"~", "d">> is  *)
(* ~/d and <<"d">> is the relative path d.  The filesystem has no symbolic *)
(* links.                                                                  *)
(***************************************************************************)
EXTENDS Naturals, Sequences, FiniteSets

\* ------------------------------------------------------------------ bounds
MaxCalls == 2     \* calls of sxs_directory in one process
MaxExt   == 1     \* external changes to the environment / filesystem

\* ------------------------------------------------------------------ paths
Root    == <<"/">>
Home    == <<"/", "home">>          \* Path.home()
Cwd     == <<"/", "home">>          \* working directory of the process
TmpRoot == <<"/", "tmp">>           \* tempfile.gettempdir()

TmpNames == <<"sxs-1", "sxs-2", "sxs-3", "sxs-4", "sxs-5">>
TmpDir(k) == TmpRoot \o <<TmpNames[k]>>
\* A call makes at most one temporary directory.
TmpDirs == {TmpDir(k) : k \in 1..MaxCalls}

Unset  == <<"<unset>">>             \* variable absent from os.environ
Empty  == <<>>                      \* variable set to the empty string
NoPath == <<"<none>">>              \* no value (no memo entry, no return)

DirA == <<"/", "a">>                \* an absolute override value
DirD == <<"~", "d">>                \* an override value with a tilde
DirR == <<"d">>                     \* a relative override value
DirX == <<"/", "x">>                \* an XDG base directory
DirU == <<"~nosuchuser", "x">>      \* a value naming an unknown user's home

Prefixes(p) == {SubSeq(p, 1, i) : i \in 1..Len(p)}

Leaves ==
    { DirA \o <<"cache">>,
      Home \o <<"d", "cache">>,
      Home \o <<".config", "sxs", "cache">>,
      Home \o <<".cache", "sxs">>,
      Home \o <<".sxs", "cache">>,
      DirX \o <<"sxs", "cache">>,
      DirX \o <<"cache">>,
      Cwd \o DirU,
      DirA \o <<"sxs", "cache">>,
      Home \o <<"d", "sxs", "cache">> }
    \cup {t \o <<"cache">> : t \in TmpDirs}

AllPaths == UNION {Prefixes(p) : p \in Leaves}

Parent(p) == IF Len(p) <= 1 THEN p ELSE SubSeq(p, 1, Len(p) - 1)

IsUnder(p, q) == Len(p) >= Len(q) /\ SubSeq(p, 1, Len(q)) = q

\* --------------------------------------------------------------- arguments
\* Mutant of DirectoryTypes: the test of line 110 lets "data" through.
DirectoryTypes_lax == {"cache", "config", "data"}

DirectoryTypes == {"cache", "config"}
CallTypes == DirectoryTypes \cup {"data"}

\* How `persistent` is passed.  functools.lru_cache keys on the positional
\* and keyword arguments as given, so f("config"), f("config", True) and
\* f("config", persistent=True) are three different cache keys.
Forms == {"omit", "posT", "posF", "kwT", "kwF"}
PersistentOf(form) == form \in {"omit", "posT", "kwT"}
\* The form of the nested call of line 140, persistent=persistent.
KwForm(persistent) == IF persistent THEN "kwT" ELSE "kwF"
Keys == [dt : CallTypes, form : Forms]
Key(directory_type, form) == [dt |-> directory_type, form |-> form]

EnvVars == {"SXSCACHEDIR", "SXSCONFIGDIR", "XDG_CACHE_HOME", "XDG_CONFIG_HOME"}
OverrideVar(directory_type) ==
    IF directory_type = "cache" THEN "SXSCACHEDIR" ELSE "SXSCONFIGDIR"
XdgVar(directory_type) ==
    IF directory_type = "cache" THEN "XDG_CACHE_HOME" ELSE "XDG_CONFIG_HOME"

\* sys.platform, a string, as the sequence of its characters.
Linux     == <<"l", "i", "n", "u", "x">>
Linux2    == Linux \o <<"2">>
FreeBSD   == <<"f", "r", "e", "e", "b", "s", "d">>
FreeBSD13 == FreeBSD \o <<"1", "3">>
FreeBSD14 == FreeBSD \o <<"1", "4">>
Darwin    == <<"d", "a", "r", "w", "i", "n">>
Win32     == <<"w", "i", "n", "3", "2">>
Platforms == {Linux, Linux2, FreeBSD13, FreeBSD14, Darwin, Win32}

\* str.startswith(prefixes) with a tuple of prefixes.
startswith(s, prefixes) ==
    \E pre \in prefixes :
        Len(s) >= Len(pre) /\ SubSeq(s, 1, Len(pre)) = pre

\* Line 120: sys.platform.startswith(('linux', 'freebsd')).
IsXdgPlatform(p) == startswith(p, {Linux, FreeBSD})

VARIABLES platform, env, fs, memo, ntmp, warnings, hooks,
          phase, ncalls, nchanges, exitErrors, last

vars == <<platform, env, fs, memo, ntmp, warnings, hooks,
          phase, ncalls, nchanges, exitErrors, last>>

\* ------------------------------------------------------------- filesystem
\* fs[p] is "none" (nothing there), "dir" (a directory the process can
\* write), "rodir" (a directory it cannot write) or "file" (a regular file it can
\* write).
FileStates == {"none", "dir", "rodir", "file"}

is_dir(f, p) == f[p] \in {"dir", "rodir"}          \* Path.is_dir()

\* Mutant of access_W_OK: os.F_OK in place of os.W_OK.
access_F_OK(f, p) == f[p] # "none"

access_W_OK(f, p) == f[p] \in {"dir", "file"}       \* os.access(p, os.W_OK)

\* Path.mkdir(parents=parents, exist_ok=True).  os.mkdir fails with
\* FileNotFoundError when the parent is missing (then, with parents, the
\* parent is made first), and with another OSError when the path exists or
\* the parent is not a writable directory; exist_ok forgives the error when
\* the path is a directory.
RECURSIVE mkdir(_, _, _)
mkdir(f, p, parents) ==
    IF f[p] # "none"
    THEN [ok |-> is_dir(f, p), fs |-> f]
    ELSE IF f[Parent(p)] = "none"
    THEN IF parents /\ Parent(p) # p
         THEN LET r == mkdir(f, Parent(p), TRUE)
              IN  IF r.ok /\ r.fs[Parent(p)] = "dir"
                  THEN [ok |-> TRUE, fs |-> [r.fs EXCEPT ![p] = "dir"]]
                  ELSE [ok |-> FALSE, fs |-> r.fs]
         ELSE [ok |-> FALSE, fs |-> f]
    ELSE IF f[Parent(p)] = "dir"
    THEN [ok |-> TRUE, fs |-> [f EXCEPT ![p] = "dir"]]
    ELSE [ok |-> FALSE, fs |-> f]

\* The entries of directory p.
Entries(f, p) == {q \in DOMAIN f : q # p /\ Parent(q) = p /\ f[q] # "none"}

\* Mutant of rmtree: os.rmdir in place of shutil.rmtree, which removes an
\* empty directory only.
rmtree_rmdir(f, p) ==
    IF is_dir(f, p) /\ f[Parent(p)] = "dir" /\ Entries(f, p) = {}
    THEN {[ok |-> TRUE, fs |-> [f EXCEPT ![p] = "none"]]}
    ELSE {[ok |-> FALSE, fs |-> f]}

\* shutil.rmtree(p) with the default onerror, which raises at the first
\* failure and leaves what has been removed until then removed.  It fails
\* when p is missing or is not a directory; otherwise it takes the entries
\* of p in the order of os.scandir, which is any order: a subdirectory is
\* emptied by a recursive call and removed with rmdir, anything else is
\* removed with unlink, both of which need p to be writable; last comes
\* rmdir(p), which needs the parent of p to be writable.  The outcomes are a
\* set, one for each order that makes a difference.
RECURSIVE rmtree(_, _)
RECURSIVE rmtree_entries(_, _)
rmtree_entries(f, p) ==
    IF Entries(f, p) = {} THEN {[ok |-> TRUE, fs |-> f]}
    ELSE UNION {
           LET first == IF is_dir(f, q)
                        THEN rmtree(f, q)
                        ELSE IF f[p] = "dir"
                        THEN {[ok |-> TRUE, fs |-> [f EXCEPT ![q] = "none"]]}
                        ELSE {[ok |-> FALSE, fs |-> f]}
           IN  UNION {IF r.ok THEN rmtree_entries(r.fs, p) ELSE {r} : r \in first}
           : q \in Entries(f, p)}

rmtree(f, p) ==
    IF ~is_dir(f, p) THEN {[ok |-> FALSE, fs |-> f]}
    ELSE {IF ~r.ok THEN r
          ELSE IF f[Parent(p)] = "dir"
          THEN [ok |-> TRUE, fs |-> [r.fs EXCEPT ![p] = "none"]]
          ELSE [ok |-> FALSE, fs |-> r.fs]
          : r \in rmtree_entries(f, p)}

\* ------------------------------------------------------- candidate choice
expanduser(v) == IF v # <<>> /\ Head(v) = "~" THEN Home \o Tail(v) ELSE v
resolve(v) == IF v # <<>> /\ Head(v) = "/" THEN v ELSE Cwd \o v

\* Path.expanduser raises RuntimeError ("Could not determine home
\* directory") for ~user when the user is unknown.
expanduser_raises(v) == v # <<>> /\ Head(v) = "~nosuchuser"

suffix(directory_type) ==
    IF directory_type = "cache" THEN <<"cache">> ELSE <<>>

DotName(directory_type) ==
    IF directory_type = "cache" THEN ".cache" ELSE ".config"

\* Mutant of PersistentCandidate: the XDG variable is consulted before the
\* override variable.
PersistentCandidate_xdgfirst(plat, e, directory_type) ==
    LET sxs_dir == e[OverrideVar(directory_type)]
        xdg     == e[XdgVar(directory_type)]
    IN  IF IsXdgPlatform(plat) /\ xdg \notin {Unset, Empty}
        THEN resolve(expanduser(xdg)) \o <<"sxs">>
        ELSE IF sxs_dir \notin {Unset, Empty}
        THEN resolve(expanduser(sxs_dir))
        ELSE IF IsXdgPlatform(plat)
        THEN Home \o <<DotName(directory_type), "sxs">>
        ELSE Home \o <<".sxs">> \o suffix(directory_type)

\* Mutant of PersistentCandidate: the home default of line 124 without the
\* cache suffix.
PersistentCandidate_nosuffix(plat, e, directory_type) ==
    LET sxs_dir == e[OverrideVar(directory_type)]
        xdg     == e[XdgVar(directory_type)]
        xdg_base == IF xdg \notin {Unset, Empty}
                    THEN xdg ELSE Home \o <<DotName(directory_type)>>
    IN  IF sxs_dir \notin {Unset, Empty}
        THEN resolve(expanduser(sxs_dir))
        ELSE IF IsXdgPlatform(plat)
        THEN resolve(expanduser(xdg_base)) \o <<"sxs">>
        ELSE Home \o <<".sxs">>

\* Lines 116-124: the one persistent candidate of a resolution.
PersistentCandidate(plat, e, directory_type) ==
    LET sxs_dir == e[OverrideVar(directory_type)]
        xdg     == e[XdgVar(directory_type)]
        xdg_base == IF xdg \notin {Unset, Empty}
                    THEN xdg ELSE Home \o <<DotName(directory_type)>>
    IN  IF sxs_dir \notin {Unset, Empty}
        THEN resolve(expanduser(sxs_dir))
        ELSE IF IsXdgPlatform(plat)
        THEN resolve(expanduser(xdg_base)) \o <<"sxs">>
        ELSE Home \o <<".sxs">> \o suffix(directory_type)

\* Lines 119 and 122 stand outside the try of line 126: an exception of
\* expanduser leaves the call.
CandidateRaises(plat, e, directory_type) ==
    LET sxs_dir == e[OverrideVar(directory_type)]
        xdg     == e[XdgVar(directory_type)]
    IN  IF sxs_dir \notin {Unset, Empty}
        THEN expanduser_raises(sxs_dir)
        ELSE IF IsXdgPlatform(plat) /\ xdg \notin {Unset, Empty}
        THEN expanduser_raises(xdg)
        ELSE FALSE

\* The variables lines 116-121 read to choose it.
EnvRead(plat, e, directory_type) ==
    IF e[OverrideVar(directory_type)] \in {Unset, Empty} /\ IsXdgPlatform(plat)
    THEN {OverrideVar(directory_type), XdgVar(directory_type)}
    ELSE {OverrideVar(directory_type)}

\* ------------------------------------------------------------ the resolver
\* A process state st is a record of the variables a call can read or
\* change; a call yields the new state with its outcome:
\*   outcome  "return", "ValueError", "OSError" or "RuntimeError"
\*   value    the path returned (NoPath when it raised)
\*   tier     which statement produced the outcome: "memo" (lru_cache hit),
\*            "persistent" (line 132), "nested" (line 147), "temp" (line
\*            164), "invalid" (line 111), "mkdtemp" (line 151 raised) or "expanduser"
\*            (line 119 or 122 raised)
\*   cand     the persistent candidate tried (NoPath when none was)
\*   nest     the tier of the nested "config" call, "none" without one
\*   nvalue   the path the nested "config" call returned (NoPath without)
\* st.reads collects the environment variables the call has read, and
\* st.probed the paths it has passed to mkdir.
Result(st, outcome, value, tier, cand, nest, nvalue) ==
    [st |-> st, outcome |-> outcome, value |-> value, tier |-> tier,
     cand |-> cand, nest |-> nest, nvalue |-> nvalue]

Warning(directory_type, sxs_dir, unwritable_dir) ==
    [dt |-> directory_type, created |-> sxs_dir,
     unwritable |-> unwritable_dir, var |-> OverrideVar(directory_type)]

\* Line 151: os.environ[f'SXS{directory_type.upper()}DIR'] = tmpdir.
\* Mutant of Export: the temporary directory is not exported.
Export_none(e, directory_type, tmpdir) == e

Export(e, directory_type, tmpdir) ==
    [e EXCEPT ![OverrideVar(directory_type)] = tmpdir]

\* Line 152: atexit.register(shutil.rmtree, tmpdir).
\* Mutant of Register: no cleanup is registered.
Register_none(hs, tmpdir) == hs

Register(hs, tmpdir) == Append(hs, tmpdir)

\* Lines 154-161: the warning, emitted for a persistent request only.
\* Mutant of Warn: the warning is emitted whatever `persistent` is.
Warn_always(ws, persistent, w) == Append(ws, w)

Warn(ws, persistent, w) == IF persistent THEN Append(ws, w) ELSE ws

\* Mutant of TempFallback: the cache subdirectory of the temporary directory
\* is named in the result and not created (lines 162-163 left out).
TempFallback_nosub(st, directory_type, persistent, unwritable_dir, nest, nvalue) ==
    IF ~st.tmpOK
    THEN Result(st, "OSError", NoPath, "mkdtemp", unwritable_dir, nest, nvalue)
    ELSE
    LET tmpdir  == TmpDir(st.ntmp + 1)
        sxs_dir == tmpdir \o suffix(directory_type)
        st1 == [st EXCEPT !.ntmp = @ + 1,
                          !.fs[tmpdir] = "dir",
                          !.env = Export(@, directory_type, tmpdir),
                          !.hooks = Register(@, tmpdir)]
        st2 == [st1 EXCEPT !.warnings = Warn(@, persistent,
                    Warning(directory_type, sxs_dir, unwritable_dir))]
    IN  Result(st2, "return", sxs_dir, "temp", unwritable_dir, nest, nvalue)

\* Lines 151-164: the final fallback.
TempFallback(st, directory_type, persistent, unwritable_dir, nest, nvalue) ==
    IF ~st.tmpOK
    THEN Result(st, "OSError", NoPath, "mkdtemp", unwritable_dir, nest, nvalue)
    ELSE
    LET tmpdir  == TmpDir(st.ntmp + 1)
        sxs_dir == tmpdir \o suffix(directory_type)
        st1 == [st EXCEPT !.ntmp = @ + 1,
                          !.fs[tmpdir] = "dir",
                          !.env = Export(@, directory_type, tmpdir),
                          !.hooks = Register(@, tmpdir)]
        st2 == [st1 EXCEPT !.warnings = Warn(@, persistent,
                    Warning(directory_type, sxs_dir, unwritable_dir))]
        mk  == IF directory_type = "cache"
               THEN mkdir(st2.fs, sxs_dir, FALSE)
               ELSE [ok |-> TRUE, fs |-> st2.fs]
        st3 == [st2 EXCEPT !.fs = mk.fs,
                           !.probed = IF directory_type = "cache"
                                      THEN @ \cup {sxs_dir} ELSE @]
    IN  IF mk.ok
        THEN Result(st3, "return", sxs_dir, "temp", unwritable_dir, nest, nvalue)
        ELSE Result(st3, "OSError", NoPath, "temp", unwritable_dir, nest, nvalue)

RECURSIVE sxs_directory(_, _, _)

\* Mutant of Fallback: the cache directory is not nested under the config
\* directory; every purpose goes straight to a temporary directory of its own.
Fallback_nonest(st, directory_type, persistent, unwritable_dir) ==
    TempFallback(st, directory_type, persistent, unwritable_dir, "none", NoPath)

\* Lines 139-164: what follows a failed (or skipped) persistent search.
Fallback(st, directory_type, persistent, unwritable_dir) ==
    IF directory_type = "cache"
    THEN LET n == sxs_directory(st, "config", KwForm(persistent))
         IN  IF n.outcome # "return"
             THEN Result(n.st, n.outcome, NoPath, n.tier, unwritable_dir,
                         n.tier, NoPath)
             ELSE LET sxs_dir == n.value \o <<"cache">>
                      mk  == mkdir(n.st.fs, sxs_dir, FALSE)
                      st1 == [n.st EXCEPT !.fs = mk.fs, !.probed = @ \cup {sxs_dir}]
                  IN  IF mk.ok /\ access_W_OK(mk.fs, sxs_dir) /\ is_dir(mk.fs, sxs_dir)
                      THEN Result(st1, "return", sxs_dir, "nested",
                                  unwritable_dir, n.tier, n.value)
                      ELSE TempFallback(st1, directory_type, persistent,
                                        unwritable_dir, n.tier, n.value)
    ELSE TempFallback(st, directory_type, persistent, unwritable_dir,
                      "none", NoPath)

\* Mutant of Body: the verified persistent directory is exported into the
\* override variable, as the temporary one is.
Body_exporting(st, directory_type, persistent) ==
    IF directory_type \notin DirectoryTypes
    THEN Result(st, "ValueError", NoPath, "invalid", NoPath, "none", NoPath)
    ELSE IF persistent /\ CandidateRaises(st.platform, st.env, directory_type)
    THEN Result([st EXCEPT !.reads = @ \cup EnvRead(st.platform, st.env,
                                                    directory_type)],
                "RuntimeError", NoPath, "expanduser", NoPath, "none", NoPath)
    ELSE IF persistent
    THEN LET sxs_dir == PersistentCandidate(st.platform, st.env, directory_type)
             mk  == mkdir(st.fs, sxs_dir, TRUE)
             st1 == [st EXCEPT !.fs = mk.fs,
                               !.reads = @ \cup EnvRead(st.platform, st.env, directory_type),
                               !.probed = @ \cup {sxs_dir}]
         IN  IF mk.ok /\ access_W_OK(mk.fs, sxs_dir) /\ is_dir(mk.fs, sxs_dir)
             THEN Result([st1 EXCEPT !.env = Export(@, directory_type, sxs_dir)],
                         "return", sxs_dir, "persistent", sxs_dir,
                         "none", NoPath)
             ELSE Fallback(st1, directory_type, persistent, sxs_dir)
    ELSE Fallback(st, directory_type, persistent, NoPath)

\* Mutant of Body: when the candidate named by the override variable fails,
\* the XDG or home default is tried before the fallback tiers.
Body_trydefault(st, directory_type, persistent) ==
    IF directory_type \notin DirectoryTypes
    THEN Result(st, "ValueError", NoPath, "invalid", NoPath, "none", NoPath)
    ELSE IF persistent /\ CandidateRaises(st.platform, st.env, directory_type)
    THEN Result([st EXCEPT !.reads = @ \cup EnvRead(st.platform, st.env,
                                                    directory_type)],
                "RuntimeError", NoPath, "expanduser", NoPath, "none", NoPath)
    ELSE IF persistent
    THEN LET sxs_dir == PersistentCandidate(st.platform, st.env, directory_type)
             mk  == mkdir(st.fs, sxs_dir, TRUE)
             st1 == [st EXCEPT !.fs = mk.fs,
                               !.reads = @ \cup EnvRead(st.platform, st.env, directory_type),
                               !.probed = @ \cup {sxs_dir}]
             dflt == PersistentCandidate(st.platform,
                        [v \in DOMAIN st.env |-> Unset], directory_type)
             mk2 == mkdir(st1.fs, dflt, TRUE)
             st2 == [st1 EXCEPT !.fs = mk2.fs, !.probed = @ \cup {dflt}]
         IN  IF mk.ok /\ access_W_OK(mk.fs, sxs_dir) /\ is_dir(mk.fs, sxs_dir)
             THEN Result(st1, "return", sxs_dir, "persistent", sxs_dir,
                         "none", NoPath)
             ELSE IF mk2.ok /\ access_W_OK(mk2.fs, dflt) /\ is_dir(mk2.fs, dflt)
             THEN Result(st2, "return", dflt, "persistent", dflt, "none", NoPath)
             ELSE Fallback(st2, directory_type, persistent, sxs_dir)
    ELSE Fallback(st, directory_type, persistent, NoPath)

\* Lines 110-164: the body of sxs_directory, run on a cache miss.
Body(st, directory_type, persistent) ==
    IF directory_type \notin DirectoryTypes
    THEN Result(st, "ValueError", NoPath, "invalid", NoPath, "none", NoPath)
    ELSE IF persistent /\ CandidateRaises(st.platform, st.env, directory_type)
    THEN Result([st EXCEPT !.reads = @ \cup EnvRead(st.platform, st.env,
                                                    directory_type)],
                "RuntimeError", NoPath, "expanduser", NoPath, "none", NoPath)
    ELSE IF persistent
    THEN LET sxs_dir == PersistentCandidate(st.platform, st.env, directory_type)
             mk  == mkdir(st.fs, sxs_dir, TRUE)
             st1 == [st EXCEPT !.fs = mk.fs,
                               !.reads = @ \cup EnvRead(st.platform, st.env, directory_type),
                               !.probed = @ \cup {sxs_dir}]
         IN  IF mk.ok /\ access_W_OK(mk.fs, sxs_dir) /\ is_dir(mk.fs, sxs_dir)
             THEN Result(st1, "return", sxs_dir, "persistent", sxs_dir,
                         "none", NoPath)
             ELSE Fallback(st1, directory_type, persistent, sxs_dir)
    ELSE Fallback(st, directory_type, persistent, NoPath)

\* Line 64: functools.lru_cache around the body.  A hit returns the stored
\* path and runs nothing; only a call that returns is stored.
sxs_directory(st, directory_type, form) ==
    LET key == Key(directory_type, form)
    IN  IF st.memo[key] # NoPath
        THEN Result(st, "return", st.memo[key], "memo", NoPath, "none", NoPath)
        ELSE LET r == Body(st, directory_type, PersistentOf(form))
             IN  IF r.outcome = "return"
                 THEN [r EXCEPT !.st.memo[key] = r.value]
                 ELSE r

\* ----------------------------------------------------------------- state
\* tmpOK: whether tempfile.mkdtemp can make a directory during the call
\* (it raises OSError when no usable temporary directory is found).
State(tmpOK) ==
    [platform |-> platform, env |-> env, fs |-> fs, tmpOK |-> tmpOK,
     memo |-> memo, ntmp |-> ntmp, warnings |-> warnings, hooks |-> hooks,
     reads |-> {}, probed |-> {}]

\* What a call found when it started: the state its claims are about.
Pre ==
    [env |-> env, fs |-> fs, memo |-> memo, ntmp |-> ntmp,
     warnings |-> warnings, hooks |-> hooks]

\* last describes the step just taken: for a call, its arguments, its
\* outcome and the state it started from.
NoCall ==
    [kind |-> "none", dt |-> "none", form |-> "none", outcome |-> "none",
     value |-> NoPath, tier |-> "none", cand |-> NoPath, nest |-> "none",
     nvalue |-> NoPath, reads |-> {}, probed |-> {}, earlier |-> NoPath,
     pre |-> <<>>]

Init ==
    /\ platform \in {Linux, Darwin}
    /\ \E c \in {Unset, DirA}, g \in {Unset, DirA} :
          /\ c = Unset \/ g = Unset
          /\ env = [v \in EnvVars |->
                   IF v = "SXSCACHEDIR" THEN c
                   ELSE IF v = "SXSCONFIGDIR" THEN g
                   ELSE Unset]
    /\ \E a \in {"dir", "rodir"}, h \in {"dir", "rodir"},
          ac \in {"none", "rodir"} :
          /\ (\A v \in EnvVars : env[v] = Unset) => a = "dir"
          /\ ac = "rodir" =>
                (env["SXSCONFIGDIR"] = DirA /\ a = "dir" /\ h = "rodir")
          /\ fs = [p \in AllPaths |->
                  IF p = Root THEN "rodir"
                  ELSE IF p = TmpRoot THEN "dir"
                  ELSE IF p = DirX THEN "dir"
                  ELSE IF p = Home THEN h
                  ELSE IF p = DirA THEN a
                  ELSE IF p = DirA \o <<"cache">> THEN ac
                  ELSE "none"]
    /\ memo = [k \in Keys |-> NoPath]
    /\ ntmp = 0
    /\ warnings = <<>>
    /\ hooks = <<>>
    /\ phase = "running"
    /\ ncalls = 0
    /\ nchanges = 0
    /\ exitErrors = 0
    /\ last = NoCall

\* A call sxs_directory(directory_type, ...) made by the program.
Call(directory_type, form, tmpOK) ==
    /\ phase = "running"
    /\ ncalls < MaxCalls
    /\ \E r \in {sxs_directory(State(tmpOK), directory_type, form)} :
           /\ env' = r.st.env
           /\ fs' = r.st.fs
           /\ memo' = r.st.memo
           /\ ntmp' = r.st.ntmp
           /\ warnings' = r.st.warnings
           /\ hooks' = r.st.hooks
           /\ last' = [kind |-> "call", dt |-> directory_type, form |-> form,
                       outcome |-> r.outcome, value |-> r.value,
                       tier |-> r.tier, cand |-> r.cand, nest |-> r.nest,
                       nvalue |-> r.nvalue,
                       reads |-> r.st.reads, probed |-> r.st.probed,
                       earlier |-> memo[Key(directory_type, form)],
                       pre |-> Pre]
    /\ ncalls' = ncalls + 1
    /\ UNCHANGED <<platform, phase, nchanges, exitErrors>>

\* ------------------------------------------------------ the outside world
ExtValues(v) ==
    IF v = "SXSCACHEDIR" THEN {DirD}
    ELSE IF v = "SXSCONFIGDIR" THEN {Empty, DirR, DirX, DirU}
    ELSE {DirX}

External(l) ==
    /\ phase = "running"
    /\ nchanges < MaxExt
    /\ nchanges' = nchanges + 1
    /\ last' = [NoCall EXCEPT !.kind = l]
    /\ UNCHANGED <<platform, memo, ntmp, warnings, hooks, phase, ncalls,
                   exitErrors>>

\* The user (or the program around the resolver) changes os.environ.
SetEnv(v, val) ==
    /\ External("setenv")
    /\ val # env[v]
    /\ env' = [env EXCEPT ![v] = val]
    /\ UNCHANGED fs

\* Somebody deletes a directory tree.
Deletable == TmpDirs \cup {DirA}

ExtRmtree(p) ==
    /\ External("rmtree")
    /\ is_dir(fs, p)
    /\ fs' = [q \in DOMAIN fs |-> IF IsUnder(q, p) THEN "none" ELSE fs[q]]
    /\ UNCHANGED env

\* ------------------------------------------------------------------- exit
\* atexit runs the registered callbacks last-in first-out; an exception in
\* one is reported and the others still run.
RECURSIVE RunHooks(_, _)
RunHooks(f, hs) ==
    IF hs = <<>> THEN {[fs |-> f, errors |-> 0]}
    ELSE UNION {
           {[fs |-> r.fs, errors |-> r.errors + (IF o.ok THEN 0 ELSE 1)]
              : r \in RunHooks(o.fs, SubSeq(hs, 1, Len(hs) - 1))}
           : o \in rmtree(f, hs[Len(hs)])}

Exit ==
    /\ phase = "running"
    /\ phase' = "exited"
    /\ \E r \in RunHooks(fs, hooks) :
           /\ fs' = r.fs
           /\ exitErrors' = r.errors
    /\ last' = [NoCall EXCEPT !.kind = "exit"]
    /\ UNCHANGED <<platform, env, memo, ntmp, warnings, hooks, ncalls,
                   nchanges>>

\* tempfile.mkdtemp succeeds (TRUE) or raises OSError (FALSE); its failure
\* is tried in one call form for each value of persistent.
MkdtempOutcomes(form) ==
    IF form \in {"omit", "posF"} THEN BOOLEAN ELSE {TRUE}

Next ==
    \/ \E form \in Forms : \E tmpOK \in MkdtempOutcomes(form) :
          Call("config", form, tmpOK)
    \/ \E form \in {"omit", "posT", "posF"} : \E tmpOK \in MkdtempOutcomes(form) :
          Call("cache", form, tmpOK)
    \/ \E form \in {"omit", "posF"} : Call("data", form, TRUE)
    \/ \E v \in EnvVars : \E val \in ExtValues(v) : SetEnv(v, val)
    \/ \E p \in Deletable : ExtRmtree(p)
    \/ Exit

Spec == Init /\ [][Next]_vars

\* -------------------------------------------- one resolution, any environment
\* The first call of a process started on any platform with any values of
\* the four variables: unset, empty, absolute, with a tilde, relative, of an
\* unknown user; /a is a directory or a regular file.
EnvValues == {Unset, Empty, DirA, DirD, DirR, DirX, DirU}

InitOne ==
    /\ platform \in Platforms
    /\ env \in [EnvVars -> EnvValues]
    /\ \E h \in {"dir", "rodir"}, a \in {"dir", "file"} :
          fs = [p \in AllPaths |->
                  IF p = Root THEN "rodir"
                  ELSE IF p \in {TmpRoot, DirX} THEN "dir"
                  ELSE IF p = DirA THEN a
                  ELSE IF p = Home THEN h
                  ELSE "none"]
    /\ memo = [k \in Keys |-> NoPath]
    /\ ntmp = 0
    /\ warnings = <<>>
    /\ hooks = <<>>
    /\ phase = "running"
    /\ ncalls = 0
    /\ nchanges = 0
    /\ exitErrors = 0
    /\ last = NoCall

CallOne(directory_type) ==
    /\ ncalls = 0
    /\ Call(directory_type, "omit", TRUE)

NextOne == \E directory_type \in DirectoryTypes : CallOne(directory_type)

SpecOne == InitOne /\ [][NextOne]_vars

TypeOK ==
    /\ platform \in Platforms
    /\ phase \in {"running", "exited"}
    /\ ncalls \in 0..MaxCalls
    /\ ntmp \in 0..ncalls
    /\ \A p \in AllPaths : fs[p] \in FileStates

\* ================================================================ claims
\* The claims are stated on the state a call leaves behind: last holds the
\* call and the state it started from.
IsCall == last.kind = "call"
Returned == IsCall /\ last.outcome = "return"
ValidPurpose == last.dt \in {"cache", "config"}
Persistent == last.form \in {"omit", "posT", "kwT"}
Ran == Returned /\ last.tier # "memo"

\* What the call changed.
Created == {p \in AllPaths : last.pre.fs[p] # fs[p]}
EnvWritten == {v \in EnvVars : last.pre.env[v] # env[v]}
NewWarnings == Len(warnings) - Len(last.pre.warnings)
NewHooks == Len(hooks) - Len(last.pre.hooks)
NewTmp == ntmp - last.pre.ntmp
Memoized == {k \in Keys : last.pre.memo[k] # memo[k]}
NoSideEffect ==
    /\ Created = {}
    /\ EnvWritten = {}
    /\ NewWarnings = 0
    /\ NewHooks = 0
    /\ NewTmp = 0

\* ------------------------------------------------------------------- C1
\* C1 as stated: every call with a valid purpose that returns, in any
\* reachable state, returns a path that is then an existing directory the
\* process can write.  Refuted: a call served from the lru_cache returns the
\* memoized path although the directory has been deleted since.
C1_AlwaysWritable ==
    (Returned /\ ValidPurpose) => fs[last.value] = "dir"

\* C1 amended: every call with a valid purpose that returns and is not
\* served from the memo returns a path that is, at that moment, an existing
\* directory the process can write.
C1_WritableWhenResolved ==
    (Ran /\ ValidPurpose) => fs[last.value] = "dir"

C1_Witness ==
    /\ Ran /\ ValidPurpose
    /\ nchanges >= 1
    /\ last.dt = "cache" /\ last.tier = "temp"
    /\ fs[last.value] = "dir"

\* ------------------------------------------------------------------- C2
\* C2 (memoization): once a call has returned p, every later call with the
\* same purpose and the same persistent flag, however the flag is passed,
\* returns exactly p and has no side effect (no directory created, no
\* environment write, no warning, no cleanup registered), even if the
\* directory was deleted or the environment was changed in between.
C2_MemoizedPerPair ==
    Returned =>
        \A f \in Forms :
           LET p == last.pre.memo[Key(last.dt, f)]
           IN  (PersistentOf(f) = PersistentOf(last.form) /\ p # NoPath) =>
                  (last.value = p /\ NoSideEffect)

\* ------------------------------------------------------------------- C3
\* C3: a purpose other than "cache" and "config" raises ValueError before
\* anything else happens: no directory is created, no variable is read or
\* written, no warning is emitted, no cleanup is registered, and nothing
\* is memoized, so that a repeat of the call raises again.
C3_InvalidPurpose ==
    (IsCall /\ ~ValidPurpose) =>
        /\ last.outcome = "ValueError"
        /\ last.probed = {} /\ last.reads = {}
        /\ NoSideEffect
        /\ Memoized = {}
        /\ memo[Key(last.dt, last.form)] = NoPath

C3_Witness ==
    /\ IsCall /\ ~ValidPurpose
    /\ ncalls >= 2
    /\ last.outcome = "ValueError"
    /\ last.form = "posF"

\* What the claims call paths and locations, stated apart from the model of
\* the resolver.
OverrideName(purpose) ==
    IF purpose = "cache" THEN "SXSCACHEDIR" ELSE "SXSCONFIGDIR"
IsSet(v) == v # Unset /\ v # Empty
AbsPath(v) ==
    IF Head(v) = "/" THEN v
    ELSE IF Head(v) = "~" THEN Home \o Tail(v)
    ELSE Cwd \o v
\* p can be created (parents included) and written.
CanUse(f, p) == LET mk == mkdir(f, p, TRUE) IN mk.ok /\ mk.fs[p] = "dir"
\* p can be created in its existing parent and written.
CanUseChild(f, p) == LET mk == mkdir(f, p, FALSE) IN mk.ok /\ mk.fs[p] = "dir"
IsFresh(t) == t \in TmpDirs /\ last.pre.fs[t] = "none" /\ fs[t] = "dir"
InTemp(p) == IsUnder(p, TmpRoot)

\* ------------------------------------------------------------------- C4
\* C4 as stated: whenever the override variable of the purpose holds an
\* existing writable directory D at the time of a call with
\* persistent=true, the call returns D itself.  Refuted: a call answered
\* from the memo returns the memoized path, whatever the variable holds
\* now.
C4_OverrideAlwaysWins ==
    (IsCall /\ ValidPurpose /\ Persistent
       /\ IsSet(last.pre.env[OverrideName(last.dt)])
       /\ last.pre.fs[AbsPath(last.pre.env[OverrideName(last.dt)])] = "dir")
    => /\ last.outcome = "return"
       /\ last.value = AbsPath(last.pre.env[OverrideName(last.dt)])

\* C4 amended: when the override variable of the purpose holds an existing
\* writable directory D at the time of a resolution with persistent=true
\* that is not answered from the memo (a call, or the nested config
\* resolution of a cache call), the resolution returns D itself, with no
\* cache suffix, whatever the XDG variables and the default locations are.
C4_OverrideWins ==
    /\ (IsCall /\ ValidPurpose /\ Persistent /\ last.tier # "memo"
          /\ IsSet(last.pre.env[OverrideName(last.dt)])
          /\ last.pre.fs[AbsPath(last.pre.env[OverrideName(last.dt)])] = "dir")
       => /\ last.outcome = "return"
          /\ last.tier = "persistent"
          /\ last.value = AbsPath(last.pre.env[OverrideName(last.dt)])
    /\ (IsCall /\ last.dt = "cache" /\ Persistent
          /\ last.nest \notin {"none", "memo"}
          /\ IsSet(last.pre.env["SXSCONFIGDIR"])
          /\ last.pre.fs[AbsPath(last.pre.env["SXSCONFIGDIR"])] = "dir")
       => last.nvalue = AbsPath(last.pre.env["SXSCONFIGDIR"])

C4_Witness ==
    /\ Ran /\ last.dt = "cache" /\ Persistent
    /\ platform = Linux
    /\ last.pre.env["SXSCACHEDIR"] = DirA
    /\ last.pre.env["XDG_CACHE_HOME"] = DirX
    /\ last.pre.fs[Home] = "dir"
    /\ last.value = DirA

\* ------------------------------------------------------------------- C5
\* The cache subdirectory of the directory the nested config resolution
\* returned can be created and written.  A directory that resolution has
\* just created is empty and writable.
NestedUsable ==
    IF last.nvalue = NoPath THEN TRUE
    ELSE IF last.pre.fs[last.nvalue] = "none" /\ last.nest # "memo"
    THEN TRUE
    ELSE CanUseChild(last.pre.fs, last.nvalue \o <<"cache">>)

\* No persistent location of the purpose can be used: neither the override
\* (when set) nor the XDG/home default.
NoWritablePersistent ==
    LET ov == last.pre.env[OverrideName(last.dt)]
        dflt == PersistentCandidate(platform,
                   [last.pre.env EXCEPT ![OverrideName(last.dt)] = Unset],
                   last.dt)
    IN  /\ IsSet(ov) => ~CanUse(last.pre.fs, AbsPath(ov))
        /\ ~CanUse(last.pre.fs, dflt)

\* C5 as stated: for either purpose, when a resolution with persistent=true
\* finds no writable persistent candidate, on return the result is (in) a
\* freshly created temporary directory, a warning has been emitted and the
\* override variable of that purpose holds the temporary directory.
\* Refuted for "cache": the result is <config>/cache and SXSCACHEDIR is
\* left alone.
C5_TemporaryForEither ==
    (Ran /\ ValidPurpose /\ Persistent /\ NoWritablePersistent) =>
        /\ NewWarnings >= 1
        /\ \E t \in TmpDirs :
              /\ IsFresh(t)
              /\ IsUnder(last.value, t)
              /\ env[OverrideName(last.dt)] = t

\* C5 amended: the statement holds for "config": the result is the fresh
\* temporary directory itself, one warning is emitted for it and
\* SXSCONFIGDIR holds it.  For "cache" the result is the cache subdirectory
\* of the resolved config directory, with SXSCACHEDIR untouched, whenever
\* that subdirectory can be created and written; only otherwise is it the
\* cache subdirectory of a fresh temporary directory, with one warning and
\* SXSCACHEDIR holding that temporary directory.
C5_TemporaryFallback ==
    (Ran /\ ValidPurpose /\ Persistent /\ NoWritablePersistent) =>
        IF last.dt = "config"
        THEN /\ last.value = TmpDir(ntmp)
             /\ IsFresh(last.value)
             /\ NewTmp = 1 /\ NewWarnings = 1
             /\ warnings[Len(warnings)].created = last.value
             /\ env["SXSCONFIGDIR"] = last.value
        ELSE IF NestedUsable
        THEN /\ last.value = last.nvalue \o <<"cache">>
             /\ fs[last.value] = "dir"
             /\ env["SXSCACHEDIR"] = last.pre.env["SXSCACHEDIR"]
        ELSE /\ last.value = TmpDir(ntmp) \o <<"cache">>
             /\ IsFresh(TmpDir(ntmp))
             /\ NewTmp = 1 /\ NewWarnings = 1
             /\ warnings[Len(warnings)].created = last.value
             /\ env["SXSCACHEDIR"] = TmpDir(ntmp)

C5_Witness ==
    /\ Ran /\ Persistent /\ NoWritablePersistent
    /\ last.dt = "config"
    /\ last.pre.env["SXSCONFIGDIR"] = DirA
    /\ last.value = TmpDir(ntmp)
    /\ env["SXSCONFIGDIR"] = last.value

\* ------------------------------------------------------------------- C6
BothUnwritable ==
    /\ ~CanUse(last.pre.fs, PersistentCandidate(platform, last.pre.env, "cache"))
    /\ ~CanUse(last.pre.fs, PersistentCandidate(platform, last.pre.env, "config"))

\* C6 as stated: when the persistent cache candidate and the persistent
\* config candidate are both unwritable, a resolution of "cache" with
\* persistent=true returns the memoized config result + "/cache" and
\* makes no temporary root of its own.  Refuted: when the memoized config
\* directory has been deleted, the cache directory gets a temporary root
\* of its own.
C6_CacheUnderConfig ==
    (Ran /\ last.dt = "cache" /\ Persistent /\ BothUnwritable) =>
        /\ last.value = memo[Key("config", "kwT")] \o <<"cache">>
        /\ env["SXSCACHEDIR"] = last.pre.env["SXSCACHEDIR"]

\* C6 amended: under the same conditions, and provided the cache
\* subdirectory of the directory the nested config resolution returns can
\* be created and written (it always can when that resolution ran in this
\* call; it cannot when a memoized config directory has been deleted), the
\* call returns the memoized config result + "/cache", an existing
\* writable directory, leaves SXSCACHEDIR alone, and the only temporary
\* root it can create is the config one, memoized for config and exported
\* as SXSCONFIGDIR.
C6_CacheUnderUsableConfig ==
    (Ran /\ last.dt = "cache" /\ Persistent /\ BothUnwritable /\ NestedUsable) =>
        /\ last.tier = "nested"
        /\ last.value = memo[Key("config", "kwT")] \o <<"cache">>
        /\ fs[last.value] = "dir"
        /\ env["SXSCACHEDIR"] = last.pre.env["SXSCACHEDIR"]
        /\ NewTmp <= 1
        /\ NewTmp = 1 =>
              /\ IsFresh(TmpDir(ntmp))
              /\ memo[Key("config", "kwT")] = TmpDir(ntmp)
              /\ env["SXSCONFIGDIR"] = TmpDir(ntmp)

C6_Witness ==
    /\ Ran /\ last.dt = "cache" /\ Persistent /\ BothUnwritable
    /\ last.pre.env["SXSCACHEDIR"] = DirA
    /\ NewTmp = 1
    /\ last.value = TmpDir(ntmp) \o <<"cache">>
    /\ memo[Key("config", "kwT")] = TmpDir(ntmp)

\* ------------------------------------------------------------------- C7
\* C7: with persistent=false the persistent search is skipped: no override
\* or XDG variable is read, nothing is created or returned outside the
\* temporary area; "config" returns a fresh temporary directory even when
\* a writable override is set, and "cache" returns the path that
\* sxs_directory("config", False) returns + "/cache", a subdirectory of
\* that same temporary config directory.
C7_NonPersistent ==
    (Ran /\ ValidPurpose /\ ~Persistent) =>
        /\ last.reads = {}
        /\ \A p \in Created \cup {last.value} : InTemp(p)
        /\ last.dt = "config" =>
              (last.value = TmpDir(ntmp) /\ IsFresh(last.value))
        /\ last.dt = "cache" =>
              \A f \in {"posF", "kwF"} :
                 memo[Key("config", f)] # NoPath =>
                    last.value = memo[Key("config", f)] \o <<"cache">>

\* ------------------------------------------------------------------- C8
\* C8 as stated: every invocation that reaches the final fallback emits
\* exactly one warning, so the warnings emitted are as many as the
\* temporary directories created.  Refuted: an invocation with
\* persistent=false creates its temporary directory without a warning.
C8_WarningPerTemporary ==
    Len(warnings) = ntmp

\* C8 amended: an invocation that reaches the final fallback emits exactly
\* one warning when persistent=true and none when persistent=false, so a
\* call emits as many warnings as it creates temporary directories when
\* persistent=true and none otherwise; each warning names the temporary
\* directory created, the persistent candidate that failed verification
\* and the override variable of its purpose.
C8_WarningPerPersistentFallback ==
    IsCall =>
        /\ NewWarnings = (IF Persistent THEN NewTmp ELSE 0)
        /\ Len(warnings) <= ntmp
        /\ NewWarnings = 1 =>
              LET w == warnings[Len(warnings)]
              IN  /\ w.created = TmpDir(ntmp) \o
                         (IF w.dt = "cache" THEN <<"cache">> ELSE <<>>)
                  /\ w.unwritable =
                         PersistentCandidate(platform, last.pre.env, w.dt)
                  /\ ~CanUse(last.pre.fs, w.unwritable)
                  /\ w.var = OverrideName(w.dt)

C8_Witness ==
    /\ IsCall /\ ~Persistent
    /\ NewTmp = 1 /\ NewWarnings = 0
    /\ ntmp = 2 /\ Len(warnings) = 1

\* ------------------------------------------------------------------- C9
\* C9: every temporary directory the resolver creates is registered for
\* cleanup exactly once, when it is created; only temporary directories
\* created by the resolver are registered; and after the process has exited
\* none of them exists any more, nor anything below them.
C9_Cleanup ==
    /\ Len(hooks) = ntmp
    /\ \A k \in 1..Len(hooks) : hooks[k] = TmpDir(k)
    /\ IsCall => NewHooks = NewTmp
    /\ phase = "exited" =>
          \A p \in AllPaths :
             (\E k \in 1..ntmp : IsUnder(p, TmpDir(k))) => fs[p] = "none"

C9_Witness ==
    /\ phase = "exited"
    /\ ntmp = 2
    /\ \E k \in Keys : memo[k] = TmpDir(1) \o <<"cache">>
    /\ \E k \in Keys : memo[k] = TmpDir(2)

\* ------------------------------------------------------------------ C10
\* C10: a call with persistent=true that returns its verified persistent
\* candidate changes no environment variable, emits no warning, registers
\* no cleanup and creates no temporary directory; besides its memo entry
\* its only effect is the creation of the candidate directory and of its
\* missing parents.
C10_SuccessFrame ==
    (Ran /\ last.tier = "persistent") =>
        /\ EnvWritten = {}
        /\ NewWarnings = 0 /\ NewHooks = 0 /\ NewTmp = 0
        /\ \A p \in Created :
              /\ p \in Prefixes(last.value)
              /\ last.pre.fs[p] = "none" /\ fs[p] = "dir"
        /\ Memoized = {Key(last.dt, last.form)}
        /\ memo[Key(last.dt, last.form)] = last.value

C10_Witness ==
    /\ Ran /\ last.tier = "persistent"
    /\ Cardinality(Created) >= 2
    /\ last.value \in Created

\* ------------------------------------------------------------------ C11
\* C11: the exit-time cleanup tolerates paths that are already missing:
\* when a temporary directory the resolver created has been deleted before
\* the process exits, every cleanup hook still completes without raising.
C11_CleanupTolerant ==
    phase = "exited" => exitErrors = 0

\* ------------------------------------------------------------------ C12
\* The call left tempfile.mkdtemp with an OSError.
TempCreationFailed == last.outcome = "OSError" /\ last.tier = "mkdtemp"

\* What a failed call leaves alone: the environment, the atexit registry,
\* the temporary area, the warnings and its own memo entry.
FailureFrame ==
    /\ EnvWritten = {}
    /\ NewHooks = 0 /\ NewTmp = 0 /\ NewWarnings = 0
    /\ Key(last.dt, last.form) \notin Memoized
    /\ memo[Key(last.dt, last.form)] = NoPath

\* C12 as stated: for a valid purpose a call raises only when the creation
\* of the temporary directory fails, and then the override variable is
\* unchanged, no cleanup is registered and nothing is memoized for the
\* call.  Violated: expanduser at lines 119 and 122 stands outside the try of
\* line 126, so an override or XDG value naming an unknown user
\* (~nosuchuser/x) makes the call raise RuntimeError where the
\* documentation promises the fallback to a temporary directory.
C12_RaisesOnlyForTemp ==
    (IsCall /\ ValidPurpose /\ last.outcome # "return") =>
        (TempCreationFailed /\ FailureFrame)

\* ------------------------------------------------------------------ C13
\* The XDG or home default of the purpose: the candidate the resolution
\* would take with the override variable unset.
DefaultCandidate(purpose) ==
    PersistentCandidate(platform,
        [last.pre.env EXCEPT ![OverrideName(purpose)] = Unset], purpose)

\* The override of the purpose is set and names a location that cannot be
\* created or written.
OverrideUnusable ==
    /\ IsSet(last.pre.env[OverrideName(last.dt)])
    /\ ~expanduser_raises(last.pre.env[OverrideName(last.dt)])
    /\ ~CanUse(last.pre.fs, AbsPath(last.pre.env[OverrideName(last.dt)]))

\* C13: one persistent candidate is tried per resolution.  When the
\* override variable of the purpose is set but names a location that cannot
\* be created or written, a resolution with persistent=true does not try
\* the XDG or home default, even when that default is writable: the XDG
\* variable of the purpose is not read, the default is neither created nor
\* returned by the persistent search, and the resolution goes on to the
\* fallback tiers (the nested <config>/cache for "cache", then a temporary
\* directory).  What the nested config resolution of a cache request tries
\* is its own candidate, which can lie where the cache default lies.
C13_OneCandidate ==
    (IsCall /\ ValidPurpose /\ Persistent /\ OverrideUnusable) =>
        /\ last.tier # "persistent"
        /\ XdgVar(last.dt) \notin last.reads
        /\ \A p \in last.probed \cup Created :
              IsUnder(p, DefaultCandidate(last.dt)) =>
                 \/ last.nvalue # NoPath /\ IsUnder(p, last.nvalue)
                 \/ /\ last.dt = "cache"
                    /\ IsUnder(p, PersistentCandidate(platform, last.pre.env,
                                                      "config"))
        /\ last.tier # "memo" =>
              /\ last.cand = AbsPath(last.pre.env[OverrideName(last.dt)])
              /\ last.dt = "config" =>
                    /\ last.probed = {last.cand}
                    /\ Created \subseteq TmpDirs
                    /\ Returned =>
                          (last.tier = "temp" /\ last.value = TmpDir(ntmp))
              /\ (last.dt = "cache" /\ Returned) =>
                    last.tier \in {"nested", "temp"}

C13_Witness ==
    /\ Ran /\ Persistent /\ last.dt = "config"
    /\ OverrideUnusable
    /\ CanUse(last.pre.fs, DefaultCandidate("config"))
    /\ last.tier = "temp"
    /\ fs[DefaultCandidate("config")] = "none"

\* ------------------------------------------------------------------ C14
\* The temporary directory an earlier fallback invocation for the purpose
\* exported: only line 151 puts a directory of the temporary area into the
\* override variable.
Exported == last.pre.env[OverrideName(last.dt)]

\* C14: after an invocation for purpose P has created the temporary
\* directory T and exported it as SXS<P>DIR, every later resolution of P
\* with persistent=true that is not served from the memo takes T as its
\* candidate and, while T is still a writable directory, returns the path
\* the fallback invocation returned (T for "config", T/cache for "cache")
\* and creates no further temporary directory.
C14_ExportReused ==
    (Ran /\ ValidPurpose /\ Persistent
       /\ Exported \in TmpDirs /\ last.pre.fs[Exported] = "dir") =>
        /\ last.cand = Exported
        /\ last.value = Exported \o suffix(last.dt)
        /\ NewTmp = 0

\* ------------------------------------------------------------------ C15
\* The call forms that pass the same persistent flag as the last call and
\* had a memo entry for its purpose when the call started.
MemoizedForms ==
    {f \in Forms : /\ PersistentOf(f) = PersistentOf(last.form)
                   /\ last.pre.memo[Key(last.dt, f)] # NoPath}

\* C15: the memo is keyed by the (purpose, persistent) pair alone, however
\* the arguments are passed: the call with persistent omitted, the call
\* with persistent passed positionally and the nested call of line 140
\* (persistent by keyword) share one memo entry.  Once the pair has an
\* entry, by a direct call or by the nested config resolution of a cache
\* call, a later call for the pair is answered from the memo: it returns
\* that path and runs no resolution (reads no variable, tries no
\* directory), even if the environment changed in between.
C15_KeyedByPair ==
    (IsCall /\ MemoizedForms # {}) =>
        /\ last.tier = "memo"
        /\ last.reads = {} /\ last.probed = {}
        /\ \A f \in MemoizedForms :
              last.value = last.pre.memo[Key(last.dt, f)]

\* ------------------------------------------------------------------ C16
\* The base directory of the XDG tier as the claim gives it: the XDG
\* variable of the purpose when set and not empty, else ~/.cache or
\* ~/.config.
ClaimedXdgBase(purpose) ==
    IF IsSet(last.pre.env[XdgVar(purpose)])
    THEN AbsPath(last.pre.env[XdgVar(purpose)])
    ELSE Home \o <<IF purpose = "cache" THEN ".cache" ELSE ".config">>

\* The process runs on Linux or on FreeBSD, whatever the release.
OnLinuxOrFreeBSD == platform \in {Linux, Linux2, FreeBSD13, FreeBSD14}

\* The XDG and home defaults as the claim gives them.
ClaimedDefault(purpose) ==
    IF OnLinuxOrFreeBSD
    THEN ClaimedXdgBase(purpose) \o <<"sxs">>
    ELSE IF purpose = "cache"
    THEN Home \o <<".sxs", "cache">>
    ELSE Home \o <<".sxs">>

\* A resolution with persistent=true that chose a candidate.
ChoseCandidate ==
    /\ IsCall /\ ValidPurpose /\ Persistent
    /\ last.tier \notin {"memo", "expanduser"}

\* C16 as stated: the persistent candidate is the override value as given
\* when it is set and not empty, else the XDG or home default.  Refuted:
\* the candidate is the override value with ~ expanded and made absolute,
\* which differs from the value given when that starts with ~ or is
\* relative.
C16_CandidateAsGiven ==
    ChoseCandidate =>
        last.cand = (IF IsSet(last.pre.env[OverrideName(last.dt)])
                     THEN last.pre.env[OverrideName(last.dt)]
                     ELSE ClaimedDefault(last.dt))

\* C16 amended: the persistent candidate is the override value, with ~
\* expanded and made absolute, when the variable is set and not empty;
\* otherwise on Linux/FreeBSD <XDG_<PURPOSE>_HOME if set and not empty
\* (expanded and made absolute likewise), else ~/.cache or ~/.config>/sxs
\* with no cache suffix for either purpose; otherwise ~/.sxs for config and
\* ~/.sxs/cache for cache.  It is the first path the resolution tries to
\* create.
C16_Candidate ==
    ChoseCandidate =>
        /\ last.cand = (IF IsSet(last.pre.env[OverrideName(last.dt)])
                        THEN AbsPath(last.pre.env[OverrideName(last.dt)])
                        ELSE ClaimedDefault(last.dt))
        /\ last.cand \in last.probed
        /\ last.tier = "persistent" => last.value = last.cand

C16_Witness ==
    /\ ChoseCandidate /\ last.dt = "cache"
    /\ platform = Linux
    /\ last.pre.env["SXSCACHEDIR"] = Empty
    /\ last.pre.env["XDG_CACHE_HOME"] = DirD
    /\ last.pre.env["SXSCONFIGDIR"] = DirR
    /\ last.value = Home \o <<"d", "sxs">>

\* ------------------------------------------------------------------ C17
\* C17: every resolution with a valid purpose that runs (is not answered
\* from the memo) and returns, returns an existing writable directory, and
\* that directory is one of three: the persistent candidate, created and
\* checked by this call; <config>/cache, created and checked by this call;
\* or the directory made last by mkdtemp, missing before the call, followed
\* by its cache subdirectory for the cache purpose.
C17_VerifiedOrFresh ==
    (Ran /\ ValidPurpose) =>
        /\ is_dir(fs, last.value) /\ access_W_OK(fs, last.value)
        /\ last.tier \in {"persistent", "nested", "temp"}
        /\ last.tier = "persistent" =>
              /\ Persistent
              /\ last.value = last.cand
              /\ last.value \in last.probed
              /\ CanUse(last.pre.fs, last.value)
              /\ NewTmp = 0
        /\ last.tier = "nested" =>
              /\ last.dt = "cache"
              /\ last.nvalue # NoPath
              /\ last.value = last.nvalue \o <<"cache">>
              /\ last.value \in last.probed
              /\ last.pre.fs[last.value] \in {"none", "dir"}
        /\ last.tier = "temp" =>
              /\ NewTmp >= 1
              /\ IsFresh(TmpDir(ntmp))
              /\ last.value = TmpDir(ntmp) \o
                     (IF last.dt = "cache" THEN <<"cache">> ELSE <<>>)
              /\ last.pre.fs[last.value] = "none"

C17_Witness ==
    /\ Ran /\ last.dt = "cache"
    /\ last.nest = "memo"
    /\ last.pre.fs[last.nvalue] = "none"
    /\ last.tier = "temp"
    /\ fs[TmpDir(ntmp) \o <<"cache">>] = "dir"
    /\ fs[last.nvalue] = "none"

\* ------------------------------------------------------------------ C18
\* The result lies in a temporary directory registered for deletion at exit.
InRegisteredTemp(p) == \E k \in 1..Len(hooks) : IsUnder(p, hooks[k])

\* C18: whenever a call with persistent=true returns a directory lying in a
\* temporary directory registered for deletion at exit, a warning has been
\* emitted in the process before that return.  Refuted: a call with
\* persistent=false exports its temporary directory into SXSCONFIGDIR
\* without a warning, and the next call with persistent=true takes that
\* directory as its override candidate and returns it.
C18_NoSilentTemporary ==
    (Returned /\ ValidPurpose /\ Persistent /\ InRegisteredTemp(last.value)) =>
        Len(warnings) >= 1

====
